---- MODULE Spec2Model ----
(***************************************************************************)
(* Model of sidebar-os/src-tauri/src/lib.rs: the window-placement          *)
(* arithmetic (i32, with the overflow behaviour of the build profile and   *)
(* the panics of i32::clamp), the three positioning commands, the          *)
(* custom-position store commands, and the event handlers run() installs.  *)
(***************************************************************************)
EXTENDS Integers, Sequences, FiniteSets, TLC

VARIABLES
  overflow_checks,  \* build profile: TRUE = debug (overflow panics), FALSE = release (wraps)
  panel_exists,     \* app.get_webview_window("panel") is Some
  running,          \* the process has not called std::process::exit
  monitor_position, \* monitor.position(): [x, y]
  monitor_size,     \* monitor.size(): [width, height]
  window_size,      \* window.outer_size(): [width, height]
  position,         \* the panel's outer position, [x, y]
  visible,          \* the panel is shown
  always_on_top,    \* the panel's always-on-top flag
  focused,          \* the panel has focus
  expand_events,    \* number of "panel-should-expand" events emitted
  toggle_events,    \* number of "toggle-collapse" events emitted
  store,            \* the in-memory settings.json store: key -> JSON value
  disk,             \* the contents of settings.json last flushed by store.save()
  saved,            \* history: per mode, what settings.json held at start or, since then,
                    \* what the last successful save/clear of the mode left
  failed,           \* history: some store command has returned Err
  calc,             \* the last call of calculate_top_center_position: its arguments and result
  prev,             \* the command invocation before the last one
  last              \* the last command or event handler run: name, inputs, result, host calls

vars == <<overflow_checks, panel_exists, running, monitor_position, monitor_size,
          window_size, position, visible, always_on_top, focused, expand_events,
          toggle_events, store, disk, saved, failed, calc, prev, last>>

geometry == <<monitor_position, monitor_size, window_size>>
panel == <<position, visible, always_on_top, focused>>
events == <<expand_events, toggle_events>>
storage == <<store, disk, saved, failed>>

(***************************************************************************)
(* Bounds of the model                                                     *)
(***************************************************************************)
MaxEvents == 3

(***************************************************************************)
(* i32 arithmetic.  Every intermediate value stays inside the i32 range,   *)
(* so the operators below compute the wrapped result without leaving it.   *)
(***************************************************************************)
I32Max == 2147483647
I32Min == -I32Max - 1

\* a + b does not fit in i32
AddOverflows(a, b) ==
  \/ b > 0 /\ a > I32Max - b
  \/ b < 0 /\ a < I32Min - b

\* a - b does not fit in i32
SubOverflows(a, b) ==
  \/ b < 0 /\ a > I32Max + b
  \/ b > 0 /\ a < I32Min + b

\* a + b modulo 2^32, as a two's complement i32
WrappingAdd(a, b) ==
  IF b > 0 /\ a > I32Max - b THEN (a - I32Max - 1) + (b - I32Max - 1)
  ELSE IF b < 0 /\ a < I32Min - b THEN (a + I32Max + 1) + (b + I32Max + 1)
  ELSE a + b

\* a - b modulo 2^32, as a two's complement i32
WrappingSub(a, b) ==
  IF b < 0 /\ a > I32Max + b THEN (a - I32Max - 1) - (b + I32Max + 1)
  ELSE IF b > 0 /\ a < I32Min + b THEN (a + I32Max + 1) - (b - I32Max - 1)
  ELSE a - b

\* `u as i32` for a u32: the same 32 bits read as two's complement
AsI32(u) == IF u <= I32Max THEN u ELSE (u - I32Max - 1) - I32Max - 1

\* a / b for b > 0: Rust's integer division truncates toward zero
TruncDiv(a, b) == IF a >= 0 THEN a \div b ELSE (a + (b - 1)) \div b

\* i32::clamp panics (assert!(min <= max)) when the bounds are out of order
ClampPanics(min, max) == min > max

\* i32::clamp(self, min, max) when it does not panic
Clamp(v, min, max) == IF v < min THEN min ELSE IF v > max THEN max ELSE v

\* the outcome of a computation: a panic, or a returned pair
Panicked == [panic |-> TRUE, x |-> 0, y |-> 0]
Returned(x, y) == [panic |-> FALSE, x |-> x, y |-> y]

(***************************************************************************)
(* calculate_top_center_position (lib.rs 59-83)                            *)
(***************************************************************************)
\* mutant: the vertical clamp is left out
calculate_top_center_position_unclamped_y(mp, ms, ws, vertical_margin, origin_bottom_left) ==
  LET available_width == WrappingSub(AsI32(ms.width), AsI32(ws.width))
      available_height == WrappingSub(AsI32(ms.height), AsI32(ws.height))
      desired_x == WrappingAdd(mp.x, TruncDiv(available_width, 2))
      max_x == WrappingAdd(mp.x, available_width)
      desired_y == IF origin_bottom_left
                   THEN WrappingSub(WrappingAdd(mp.y, available_height), vertical_margin)
                   ELSE WrappingAdd(mp.y, vertical_margin)
  IN  IF ClampPanics(mp.x, max_x)
      THEN Panicked
      ELSE Returned(Clamp(desired_x, mp.x, max_x), desired_y)

calculate_top_center_position(mp, ms, ws, vertical_margin, origin_bottom_left) ==
  LET mw == AsI32(ms.width)
      ww == AsI32(ws.width)
      mh == AsI32(ms.height)
      wh == AsI32(ws.height)
      available_width == WrappingSub(mw, ww)
      desired_x == WrappingAdd(mp.x, TruncDiv(available_width, 2))
      min_x == mp.x
      max_x == WrappingAdd(mp.x, available_width)
      available_height == WrappingSub(mh, wh)
      top == WrappingAdd(mp.y, available_height)
      desired_y == IF origin_bottom_left
                   THEN WrappingSub(top, vertical_margin)
                   ELSE WrappingAdd(mp.y, vertical_margin)
      min_y == mp.y
      max_y == WrappingAdd(mp.y, available_height)
      overflowed ==
        \/ SubOverflows(mw, ww)
        \/ AddOverflows(mp.x, TruncDiv(available_width, 2))
        \/ AddOverflows(mp.x, available_width)
        \/ SubOverflows(mh, wh)
        \/ IF origin_bottom_left
           THEN AddOverflows(mp.y, available_height) \/ SubOverflows(top, vertical_margin)
           ELSE AddOverflows(mp.y, vertical_margin)
        \/ AddOverflows(mp.y, available_height)
  IN  IF (overflow_checks /\ overflowed) \/ ClampPanics(min_x, max_x) \/ ClampPanics(min_y, max_y)
      THEN Panicked
      ELSE Returned(Clamp(desired_x, min_x, max_x), Clamp(desired_y, min_y, max_y))

(***************************************************************************)
(* The arithmetic of position_window_right_center (lib.rs 116-129) and of  *)
(* position_window_left_center (lib.rs 163-176).  margin is an Option<i32>:*)
(* <<>> is None and <<m>> is Some(m).                                      *)
(***************************************************************************)
None == <<>>
Some(v) == <<v>>

\* the default margin of the left/right commands, and the margin of the top command
DefaultMargin == 40
TopMargin == 40

\* mutant: unwrap_or_default, the default margin is lost
UnwrapOrDefault(opt, default) == IF opt = None THEN 0 ELSE opt[1]

\* Option::unwrap_or
UnwrapOr(opt, default) == IF opt = None THEN default ELSE opt[1]

\* mutant: the margin is added to the right edge instead of subtracted from it
right_center_position_margin_added(mp, ms, ws, margin) ==
  LET m == UnwrapOr(margin, DefaultMargin)
      available_width == WrappingSub(AsI32(ms.width), AsI32(ws.width))
      available_height == WrappingSub(AsI32(ms.height), AsI32(ws.height))
      right == WrappingAdd(mp.x, available_width)
      max_y == WrappingAdd(mp.y, available_height)
  IN  IF ClampPanics(mp.x, right) \/ ClampPanics(mp.y, max_y)
      THEN Panicked
      ELSE Returned(Clamp(WrappingAdd(WrappingSub(right, available_width), m), mp.x, right),
                    Clamp(WrappingAdd(mp.y, TruncDiv(available_height, 2)), mp.y, max_y))

right_center_position(mp, ms, ws, margin) ==
  LET m == UnwrapOr(margin, DefaultMargin)
      mw == AsI32(ms.width)
      ww == AsI32(ws.width)
      mh == AsI32(ms.height)
      wh == AsI32(ws.height)
      available_width == WrappingSub(mw, ww)
      right == WrappingAdd(mp.x, available_width)
      desired_x == WrappingSub(right, m)
      available_height == WrappingSub(mh, wh)
      desired_y == WrappingAdd(mp.y, TruncDiv(available_height, 2))
      min_x == mp.x
      max_x == WrappingAdd(mp.x, available_width)
      min_y == mp.y
      max_y == WrappingAdd(mp.y, available_height)
      overflowed ==
        \/ SubOverflows(mw, ww)
        \/ AddOverflows(mp.x, available_width)
        \/ SubOverflows(right, m)
        \/ SubOverflows(mh, wh)
        \/ AddOverflows(mp.y, TruncDiv(available_height, 2))
        \/ AddOverflows(mp.y, available_height)
  IN  IF (overflow_checks /\ overflowed) \/ ClampPanics(min_x, max_x) \/ ClampPanics(min_y, max_y)
      THEN Panicked
      ELSE Returned(Clamp(desired_x, min_x, max_x), Clamp(desired_y, min_y, max_y))

left_center_position(mp, ms, ws, margin) ==
  LET m == UnwrapOr(margin, DefaultMargin)
      mw == AsI32(ms.width)
      ww == AsI32(ws.width)
      mh == AsI32(ms.height)
      wh == AsI32(ws.height)
      desired_x == WrappingAdd(mp.x, m)
      available_height == WrappingSub(mh, wh)
      desired_y == WrappingAdd(mp.y, TruncDiv(available_height, 2))
      available_width == WrappingSub(mw, ww)
      min_x == mp.x
      max_x == WrappingAdd(mp.x, available_width)
      min_y == mp.y
      max_y == WrappingAdd(mp.y, available_height)
      overflowed ==
        \/ AddOverflows(mp.x, m)
        \/ SubOverflows(mh, wh)
        \/ AddOverflows(mp.y, TruncDiv(available_height, 2))
        \/ SubOverflows(mw, ww)
        \/ AddOverflows(mp.x, available_width)
        \/ AddOverflows(mp.y, available_height)
  IN  IF (overflow_checks /\ overflowed) \/ ClampPanics(min_x, max_x) \/ ClampPanics(min_y, max_y)
      THEN Panicked
      ELSE Returned(Clamp(desired_x, min_x, max_x), Clamp(desired_y, min_y, max_y))

(***************************************************************************)
(* Input domains.  A geometry is what the host reports for the monitor and *)
(* the panel: realistic pixel values, with windows that fit, windows wider *)
(* or taller than the monitor, odd and even free space, and monitors left  *)
(* of and right of the primary one.  Margins come from the caller and are  *)
(* any i32.                                                                *)
(***************************************************************************)
Pos(x, y) == [x |-> x, y |-> y]
Size(w, h) == [width |-> w, height |-> h]
Geometry(mp, ms, ws) == [mp |-> mp, ms |-> ms, ws |-> ws]

Geometries ==
  { Geometry(Pos(100, 50), Size(400, 200), Size(380, 150)),
    Geometry(Pos(0, 0), Size(1920, 1080), Size(420, 110)),
    Geometry(Pos(-1920, -30), Size(1920, 1080), Size(395, 175)),
    Geometry(Pos(100, 50), Size(400, 200), Size(400, 200)),
    Geometry(Pos(100, 50), Size(400, 200), Size(420, 110)),
    Geometry(Pos(0, 0), Size(400, 200), Size(380, 250)) }

Margins == {I32Min, -1, 0, 5, 20, 40, 200, 2000, I32Max}

MarginOptions == {None} \cup {Some(m) : m \in {I32Min, 0, 5, 20, 40, 2000, I32Max}}

\* window.width <= monitor.width and window.height <= monitor.height
Fits(ms, ws) == ws.width <= ms.width /\ ws.height <= ms.height

(***************************************************************************)
(* The record of a handler run: the command or event, its margin argument, *)
(* its string argument (a mode, a hotkey, a menu id), what the host did to *)
(* it, what it returned ("Ok", an error string, or "panic"), the payload   *)
(* (a command's return value; for an event handler, whether the panel was  *)
(* visible when it ran), and the host calls it made, in order.             *)
(***************************************************************************)
Run(cmd, margin, arg, host, result, value, calls) ==
  [cmd |-> cmd, margin |-> margin, arg |-> arg, host |-> host, result |-> result,
   value |-> value, calls |-> calls]

NoRun == Run("", None, "", "", "", <<>>, <<>>)

\* the summary of a placement that succeeded: the command, its margin, where it put the panel
Placed(cmd, margin, x, y) == [cmd |-> cmd, margin |-> margin, x |-> x, y |-> y]
NoPlaced == Placed("", None, 0, 0)

NoCalc == [mp |-> Pos(0, 0), ms |-> Size(0, 0), ws |-> Size(0, 0), vertical_margin |-> 0,
           origin_bottom_left |-> FALSE, called |-> FALSE, out |-> Panicked]

(***************************************************************************)
(* The settings store (tauri_plugin_store), as the commands use it: a map  *)
(* from string keys to JSON values with set, get, delete and has.          *)
(***************************************************************************)
Modes == {"top", "left"}
StoredXs == {-5, 300}
StoredYs == {12}

EmptyStore == [k \in {} |-> None]
StoreSet(s, key, value) == [k \in DOMAIN s \cup {key} |-> IF k = key THEN value ELSE s[k]]
StoreGet(s, key) == IF key \in DOMAIN s THEN Some(s[key]) ELSE None
StoreDelete(s, key) == [k \in DOMAIN s \ {key} |-> s[k]]
StoreHas(s, key) == key \in DOMAIN s

(***************************************************************************)
(* JSON values (serde_json::Value).  An integer is kept as its sign and    *)
(* its decimal digits, as settings.json holds it, so that integers outside *)
(* the i32 range have a value and a text; a float is kept as the text      *)
(* serde_json prints for it (1.5, 1.0); a string is kept as the sequence of *)
(* the code points of its characters, so that its quoted form can be       *)
(* written.  Characters are those of Basic Latin and Latin-1 (code points   *)
(* 0 to 255) other than the backtick, which no string of this language can *)
(* hold; the operators on characters have no value outside them.           *)
(***************************************************************************)
JsonNull == [kind |-> "null"]
JsonBool(b) == [kind |-> "bool", b |-> b]
JsonInteger(negative, digits) == [kind |-> "integer", negative |-> negative, digits |-> digits]
JsonFloat(text) == [kind |-> "float", text |-> text]
JsonString(chars) == [kind |-> "string", chars |-> chars]
JsonObject(fields) == [kind |-> "object", fields |-> fields]
JsonArray(items) == [kind |-> "array", items |-> items]

\* the decimal digits of n >= 0
RECURSIVE Digits(_)
Digits(n) == IF n < 10 THEN <<n>> ELSE Append(Digits(n \div 10), n % 10)

\* the decimal digits of -n for n <= 0 (-n itself need not fit in an i32)
RECURSIVE NegDigits(_)
NegDigits(n) ==
  LET digit == (10 - (n % 10)) % 10
  IN  IF n > -10 THEN <<-n>> ELSE Append(NegDigits((n + digit) \div 10), digit)

\* serde_json::Number::from(n) for an i32 n
JsonNumber(n) == IF n < 0 THEN JsonInteger(TRUE, NegDigits(n)) ELSE JsonInteger(FALSE, Digits(n))

DigitChars == <<"0", "1", "2", "3", "4", "5", "6", "7", "8", "9">>

RECURSIVE DigitsText(_)
DigitsText(digits) ==
  IF digits = <<>> THEN ""
  ELSE DigitsText(SubSeq(digits, 1, Len(digits) - 1)) \o DigitChars[digits[Len(digits)] + 1]

\* the decimal text of an integer, as Display prints it
IntegerText(negative, digits) == (IF negative THEN "-" ELSE "") \o DigitsText(digits)

\* serde's messages put the offending value between backticks; a string of this
\* language cannot hold that character, and ' is written in its place
Ticked(text) == "'" \o text \o "'"

\* the printable characters by code point: 32..95, 97..126, 161..172, 174..255
AsciiLow ==
  <<" ", "!", "\"", "#", "$", "%", "&", "'", "(", ")", "*", "+", ",", "-", ".", "/",
    "0", "1", "2", "3", "4", "5", "6", "7", "8", "9", ":", ";", "<", "=", ">", "?",
    "@", "A", "B", "C", "D", "E", "F", "G", "H", "I", "J", "K", "L", "M", "N", "O",
    "P", "Q", "R", "S", "T", "U", "V", "W", "X", "Y", "Z", "[", "\\", "]", "^", "_">>

AsciiHigh ==
  <<"a", "b", "c", "d", "e", "f", "g", "h", "i", "j", "k", "l", "m", "n", "o", "p",
    "q", "r", "s", "t", "u", "v", "w", "x", "y", "z", "{", "|", "}", "~">>

Latin1Low ==
  <<"¡", "¢", "£", "¤", "¥", "¦", "§", "¨", "©", "ª", "«", "¬">>

Latin1High ==
  <<"®", "¯", "°", "±", "²", "³", "´", "µ", "¶", "·", "¸", "¹", "º", "»", "¼", "½",
    "¾", "¿", "À", "Á", "Â", "Ã", "Ä", "Å", "Æ", "Ç", "È", "É", "Ê", "Ë", "Ì", "Í",
    "Î", "Ï", "Ð", "Ñ", "Ò", "Ó", "Ô", "Õ", "Ö", "×", "Ø", "Ù", "Ú", "Û", "Ü", "Ý",
    "Þ", "ß", "à", "á", "â", "ã", "ä", "å", "æ", "ç", "è", "é", "ê", "ë", "ì", "í",
    "î", "ï", "ð", "ñ", "ò", "ó", "ô", "õ", "ö", "÷", "ø", "ù", "ú", "û", "ü", "ý",
    "þ", "ÿ">>

\* the character with code point c, for a printable c
Char(c) ==
  IF c <= 95 THEN AsciiLow[c - 31]
  ELSE IF c >= 97 /\ c <= 126 THEN AsciiHigh[c - 96]
  ELSE IF c <= 172 THEN Latin1Low[c - 160]
  ELSE Latin1High[c - 173]

\* the string of a sequence of printable code points
RECURSIVE Text(_)
Text(chars) ==
  IF chars = <<>> THEN ""
  ELSE Text(SubSeq(chars, 1, Len(chars) - 1)) \o Char(chars[Len(chars)])

\* whether {:?} prints the character as it is: not a control character (0..31,
\* 127..159), not the no-break space (160), not the soft hyphen (173)
is_printable(c) ==
  [k \in 0..255 |-> (k >= 32 /\ k <= 126) \/ (k >= 161 /\ k <= 172) \/ k >= 174][c]

HexChars == <<"0", "1", "2", "3", "4", "5", "6", "7", "8", "9", "a", "b", "c", "d", "e", "f">>

\* {:x} of a code point
RECURSIVE Hex(_)
Hex(c) == IF c < 16 THEN HexChars[c + 1] ELSE Hex(c \div 16) \o HexChars[(c % 16) + 1]

\* char::escape_debug as {:?} of a str applies it: NUL, tab, carriage return, line
\* feed, the backslash and the double quote have their own escapes, a printable
\* character stands for itself, every other character is written \u{hex}
escape_debug(c) ==
  IF c = 0 THEN "\\0"
  ELSE IF c = 9 THEN "\\t"
  ELSE IF c = 13 THEN "\\r"
  ELSE IF c = 10 THEN "\\n"
  ELSE IF c = 92 THEN "\\\\"
  ELSE IF c = 34 THEN "\\\""
  ELSE IF is_printable(c) THEN Char(c)
  ELSE "\\u{" \o Hex(c) \o "}"

\* format!("{:?}", str): the escaped characters between quotes
RECURSIVE EscapedText(_)
EscapedText(chars) ==
  IF chars = <<>> THEN ""
  ELSE EscapedText(SubSeq(chars, 1, Len(chars) - 1)) \o escape_debug(chars[Len(chars)])

DebugText(chars) == "\"" \o EscapedText(chars) \o "\""

\* how serde_json names a value it did not expect (Value::unexpected, JsonUnexpected)
Unexpected(value) ==
  IF value.kind = "null" THEN "null"
  ELSE IF value.kind = "bool" THEN "boolean " \o Ticked(IF value.b THEN "true" ELSE "false")
  ELSE IF value.kind = "integer"
  THEN "integer " \o Ticked(IntegerText(value.negative, value.digits))
  ELSE IF value.kind = "float" THEN "floating point " \o Ticked(value.text)
  ELSE IF value.kind = "string" THEN "string " \o DebugText(value.chars)
  ELSE IF value.kind = "array" THEN "sequence"
  ELSE "map"

\* the outcome of a deserialisation: the value, or serde's error
Deserialized(v) == [ok |-> TRUE, v |-> v, err |-> ""]
DeserializeError(err) == [ok |-> FALSE, v |-> <<>>, err |-> err]

\* the i32 a sign and digits stand for, read digit by digit from position i with acc the
\* value so far; not ok when it does not fit in an i32
RECURSIVE i32_from_digits(_, _, _, _)
i32_from_digits(negative, digits, i, acc) ==
  IF i > Len(digits) THEN Deserialized(acc)
  ELSE IF negative
  THEN IF acc < TruncDiv(I32Min + digits[i], 10) THEN DeserializeError("")
       ELSE i32_from_digits(negative, digits, i + 1, acc * 10 - digits[i])
  ELSE IF acc > (I32Max - digits[i]) \div 10 THEN DeserializeError("")
       ELSE i32_from_digits(negative, digits, i + 1, acc * 10 + digits[i])

\* i32::deserialize on a JSON value: an integer in the i32 range, an error for an
\* integer outside it and for every other kind of value
deserialize_i32(value) ==
  IF value.kind # "integer"
  THEN DeserializeError("invalid type: " \o Unexpected(value) \o ", expected i32")
  ELSE IF ~i32_from_digits(value.negative, value.digits, 1, 0).ok
  THEN DeserializeError("invalid value: " \o Unexpected(value) \o ", expected i32")
  ELSE i32_from_digits(value.negative, value.digits, 1, 0)

\* mutant: the mode is left out of the key
KeyWithoutMode(mode) == "custom_position_"

\* format!("custom_position_{}", mode)
Key(mode) == "custom_position_" \o mode

\* serde_json::to_value(&WindowPos { x, y }): the JSON object {"x": x, "y": y}
to_value(x, y) == JsonObject([x |-> JsonNumber(x), y |-> JsonNumber(y)])

\* serde_json::from_value::<WindowPos>(value), then the tuple (pos.x, pos.y).  The
\* derived Deserialize reads an object field by field in key order (unknown fields
\* are skipped) and then reports a missing field; it also reads an array [x, y].
from_value(value) ==
  IF value.kind = "object"
  THEN LET has_x == "x" \in DOMAIN value.fields
           has_y == "y" \in DOMAIN value.fields
           x == IF has_x THEN deserialize_i32(value.fields.x) ELSE DeserializeError("")
           y == IF has_y THEN deserialize_i32(value.fields.y) ELSE DeserializeError("")
       IN  IF has_x /\ ~x.ok THEN x
           ELSE IF has_y /\ ~y.ok THEN y
           ELSE IF ~has_x THEN DeserializeError("missing field " \o Ticked("x"))
           ELSE IF ~has_y THEN DeserializeError("missing field " \o Ticked("y"))
           ELSE Deserialized(<<x.v, y.v>>)
  ELSE IF value.kind = "array"
  THEN LET n == Len(value.items)
           x == IF n >= 1 THEN deserialize_i32(value.items[1]) ELSE DeserializeError("")
           y == IF n >= 2 THEN deserialize_i32(value.items[2]) ELSE DeserializeError("")
       IN  IF n = 0
           THEN DeserializeError("invalid length 0, expected struct WindowPos with 2 elements")
           ELSE IF ~x.ok THEN x
           ELSE IF n = 1
           THEN DeserializeError("invalid length 1, expected struct WindowPos with 2 elements")
           ELSE IF ~y.ok THEN y
           ELSE IF n > 2
           THEN DeserializeError("invalid length " \o DigitsText(Digits(n))
                                 \o ", expected fewer elements in array")
           ELSE Deserialized(<<x.v, y.v>>)
  ELSE DeserializeError("invalid type: " \o Unexpected(value) \o ", expected struct WindowPos")

\* what settings.json may hold when the store is opened: nothing, positions an
\* earlier run saved, and entries written by something else (the webview's store
\* API, another version, by hand) that are not a WindowPos
SeedStores ==
  { EmptyStore,
    StoreSet(EmptyStore, Key("top"), to_value(7, 9)),
    StoreSet(EmptyStore, Key("top"), JsonObject([x |-> JsonNumber(1)])),
    StoreSet(EmptyStore, Key("left"),
             JsonObject([x |-> JsonInteger(FALSE, <<3, 0, 0, 0, 0, 0, 0, 0, 0, 0>>),
                         y |-> JsonNumber(0)])),
    StoreSet(EmptyStore, Key("top"), JsonObject([x |-> JsonFloat("1.5"), y |-> JsonNull])),
    StoreSet(EmptyStore, Key("left"), JsonString(<<111, 111, 112, 115>>)),
    StoreSet(EmptyStore, Key("left"), JsonArray(<<JsonNumber(4), JsonNumber(6)>>)) }

\* the history value of a mode whose entry no save_custom_position wrote
Foreign == Some(<<>>)

\* the history value of a mode for the contents s of settings.json: the position an
\* earlier save left there, none, or foreign for an entry that is not what
\* save_custom_position writes
Loaded(s, mode) ==
  IF ~StoreHas(s, Key(mode)) THEN None
  ELSE IF /\ from_value(s[Key(mode)]).ok
          /\ s[Key(mode)] = to_value(from_value(s[Key(mode)]).v[1], from_value(s[Key(mode)]).v[2])
  THEN Some(from_value(s[Key(mode)]).v)
  ELSE Foreign

(***************************************************************************)
(* The state after run() has built the application and setup has run       *)
(* (lib.rs 269-428): the panel, when there is one, was shown and focused   *)
(* and one "panel-should-expand" was emitted (lib.rs 315-319).             *)
(***************************************************************************)
Init ==
  /\ overflow_checks \in BOOLEAN
  /\ panel_exists \in BOOLEAN
  /\ running = TRUE
  /\ \E g \in Geometries :
       /\ monitor_position = g.mp
       /\ monitor_size = g.ms
       /\ window_size = g.ws
  /\ position = Pos(7, 7)
  /\ visible = panel_exists
  /\ always_on_top = FALSE
  /\ focused = panel_exists
  /\ expand_events = IF panel_exists THEN 1 ELSE 0
  /\ toggle_events = 0
  /\ store \in SeedStores
  /\ disk = store
  /\ saved = [mode \in Modes |-> Loaded(store, mode)]
  /\ failed = FALSE
  /\ calc = NoCalc
  /\ prev = NoPlaced
  /\ last = NoRun

(***************************************************************************)
(* The positioning commands.  host names the first host call that fails    *)
(* once the panel is found: window.current_monitor() returning Err or      *)
(* Ok(None), window.outer_size(), window.set_position(); or none of them.  *)
(***************************************************************************)
HostOutcomes == {"current_monitor failed", "No monitor found", "outer_size failed",
                 "set_position failed", "ok"}

PlacementCommands == {"position_window_top_center", "position_window_right_center",
                      "position_window_left_center"}

\* the placement that succeeded most recently, as seen when a new command starts
LastPlaced ==
  IF last.result = "Ok" /\ last.cmd \in PlacementCommands
  THEN Placed(last.cmd, last.margin, position.x, position.y)
  ELSE prev

\* what a positioning command returns: "Ok", the error string, or "panic"
PlaceResult(target, host) ==
  IF ~panel_exists THEN "Window not found"
  ELSE IF host \in {"current_monitor failed", "No monitor found", "outer_size failed"} THEN host
  ELSE IF target.panic THEN "panic"
  ELSE IF host = "set_position failed" THEN host
  ELSE "Ok"

\* the host calls a positioning command makes, in order
PlaceCalls(target, host) ==
  LET lookups == <<"get_webview_window", "current_monitor", "outer_size">>
  IN  IF ~panel_exists THEN SubSeq(lookups, 1, 1)
      ELSE IF host \in {"current_monitor failed", "No monitor found"} THEN SubSeq(lookups, 1, 2)
      ELSE IF host = "outer_size failed" \/ target.panic THEN lookups
      ELSE IF host = "set_position failed" THEN Append(lookups, "set_position")
      ELSE lookups \o <<"set_position", "show", "set_always_on_top", "set_focus">>

\* mutant: the panel is shown, raised and focused before the lookups
PlaceShowsFirst(cmd, margin, target, host) ==
  /\ running
  /\ prev' = LastPlaced
  /\ last' = Run(cmd, margin, "", host, PlaceResult(target, host), <<>>,
                 PlaceCalls(target, host))
  /\ position' = IF PlaceResult(target, host) = "Ok" THEN Pos(target.x, target.y) ELSE position
  /\ visible' = (panel_exists \/ visible)
  /\ always_on_top' = (panel_exists \/ always_on_top)
  /\ focused' = (panel_exists \/ focused)
  /\ UNCHANGED <<overflow_checks, panel_exists, running, geometry, events, storage, calc>>

\* the common body of the three commands: lookups, the computed target, set_position, show
Place(cmd, margin, target, host) ==
  /\ running
  /\ prev' = LastPlaced
  /\ last' = Run(cmd, margin, "", host, PlaceResult(target, host), <<>>,
                 PlaceCalls(target, host))
  /\ IF PlaceResult(target, host) = "Ok"
     THEN /\ position' = Pos(target.x, target.y)
          /\ visible' = TRUE
          /\ always_on_top' = TRUE
          /\ focused' = TRUE
     ELSE UNCHANGED panel
  /\ UNCHANGED <<overflow_checks, panel_exists, running, geometry, events, storage, calc>>

\* mutant: the bottom-left origin convention is used
position_window_top_center_bottom_origin(host) ==
  Place("position_window_top_center", None,
        calculate_top_center_position(monitor_position, monitor_size, window_size,
                                      TopMargin, TRUE),
        host)

position_window_top_center(host) ==
  Place("position_window_top_center", None,
        calculate_top_center_position(monitor_position, monitor_size, window_size,
                                      TopMargin, FALSE),
        host)

position_window_right_center(margin, host) ==
  Place("position_window_right_center", margin,
        right_center_position(monitor_position, monitor_size, window_size, margin),
        host)

position_window_left_center(margin, host) ==
  Place("position_window_left_center", margin,
        left_center_position(monitor_position, monitor_size, window_size, margin),
        host)

\* the webview or the user hides the panel (the host's window.hide()); the panel loses focus
HostHide ==
  /\ running
  /\ panel_exists
  /\ visible
  /\ visible' = FALSE
  /\ focused' = FALSE
  /\ prev' = LastPlaced
  /\ last' = Run("hide", None, "", "", "Ok", <<>>, <<>>)
  /\ UNCHANGED <<overflow_checks, panel_exists, running, geometry, position, always_on_top,
                 events, storage, calc>>

\* the host's window.center(): the middle of the current monitor, the monitor's origin
\* on an axis where the window does not fit
HostCenter(mp, ms, ws) ==
  Pos(IF ms.width < ws.width THEN mp.x ELSE mp.x + TruncDiv(ms.width - ws.width, 2),
      IF ms.height < ws.height THEN mp.y ELSE mp.y + TruncDiv(ms.height - ws.height, 2))

\* center_window: the panel is looked up and centred by the host; it is not shown,
\* raised or focused
center_window(center_ok) ==
  /\ running
  /\ prev' = LastPlaced
  /\ IF ~panel_exists
     THEN /\ last' = Run("center_window", None, "", "", "Window not found", <<>>,
                         <<"get_webview_window">>)
          /\ UNCHANGED panel
     ELSE IF ~center_ok
     THEN /\ last' = Run("center_window", None, "", "center failed", "center failed", <<>>,
                         <<"get_webview_window", "center">>)
          /\ UNCHANGED panel
     ELSE /\ last' = Run("center_window", None, "", "ok", "Ok", <<>>,
                         <<"get_webview_window", "center">>)
          /\ position' = HostCenter(monitor_position, monitor_size, window_size)
          /\ UNCHANGED <<visible, always_on_top, focused>>
  /\ UNCHANGED <<overflow_checks, panel_exists, running, geometry, events, storage, calc>>

\* the levels the webview passes to debug_log, as code points:
\* ERROR, Warn, DEBUG, trace, verbose
LogLevels == { <<69, 82, 82, 79, 82>>, <<87, 97, 114, 110>>, <<68, 69, 66, 85, 71>>,
               <<116, 114, 97, 99, 101>>, <<118, 101, 114, 98, 111, 115, 101>> }

\* char::to_lowercase on Basic Latin and Latin-1: A..Z and the accented capitals
\* 192..222 other than the multiplication sign 215 move up by 32
to_lowercase_char(c) ==
  [k \in 0..255 |->
     IF (k >= 65 /\ k <= 90) \/ (k >= 192 /\ k <= 214) \/ (k >= 216 /\ k <= 222)
     THEN k + 32
     ELSE k][c]

\* level.to_lowercase()
to_lowercase(level) == [i \in 1..Len(level) |-> to_lowercase_char(level[i])]

\* the log macro debug_log picks: the named level (error, warn, debug, trace), info
\* for any other
LogMacro(level) ==
  IF to_lowercase(level) = <<101, 114, 114, 111, 114>> THEN "error"
  ELSE IF to_lowercase(level) = <<119, 97, 114, 110>> THEN "warn"
  ELSE IF to_lowercase(level) = <<100, 101, 98, 117, 103>> THEN "debug"
  ELSE IF to_lowercase(level) = <<116, 114, 97, 99, 101>> THEN "trace"
  ELSE "info"

\* debug_log: a line is logged; nothing else changes
debug_log(level) ==
  /\ running
  /\ prev' = LastPlaced
  /\ last' = Run("debug_log", None, Text(level), "", "Ok", Some(LogMacro(level)), <<"log">>)
  /\ UNCHANGED <<overflow_checks, panel_exists, running, geometry, panel, events, storage,
                 calc>>

NextWindow ==
  \/ \E host \in HostOutcomes : position_window_top_center(host)
  \/ \E center_ok \in BOOLEAN : center_window(center_ok)
  \/ \E level \in LogLevels : debug_log(level)
  \/ \E margin \in MarginOptions, host \in HostOutcomes :
       position_window_right_center(margin, host)
  \/ \E margin \in MarginOptions, host \in HostOutcomes :
       position_window_left_center(margin, host)
  \/ HostHide

\* the positioning commands never open the store
InitWindow ==
  /\ Init
  /\ store = EmptyStore

SpecWindow == InitWindow /\ [][NextWindow]_vars

(***************************************************************************)
(* Calls of calculate_top_center_position on their own, as the unit tests  *)
(* make them (lib.rs 434-468): any geometry, any margin, either origin.    *)
(***************************************************************************)
CalcPositions == {Pos(0, 0), Pos(100, 50), Pos(-1920, -30)}
CalcMonitorSizes == {Size(400, 200), Size(1920, 1080)}
CalcWindowSizes == {Size(380, 150), Size(420, 110), Size(395, 175), Size(400, 200),
                    Size(380, 250)}

Calculate(mp, ms, ws, vertical_margin, origin_bottom_left) ==
  /\ running
  /\ calc' = [mp |-> mp, ms |-> ms, ws |-> ws, vertical_margin |-> vertical_margin,
              origin_bottom_left |-> origin_bottom_left, called |-> TRUE,
              out |-> calculate_top_center_position(mp, ms, ws, vertical_margin,
                                                    origin_bottom_left)]
  /\ UNCHANGED <<overflow_checks, panel_exists, running, geometry, panel, events, storage,
                 prev, last>>

NextCalc ==
  \E mp \in CalcPositions, ms \in CalcMonitorSizes, ws \in CalcWindowSizes,
     vertical_margin \in Margins, origin_bottom_left \in BOOLEAN :
    Calculate(mp, ms, ws, vertical_margin, origin_bottom_left)

\* one host configuration: calculate_top_center_position reads none of it
InitCalc ==
  /\ Init
  /\ panel_exists
  /\ store = EmptyStore
  /\ monitor_position = Pos(0, 0)
  /\ window_size = Size(420, 110)

SpecCalc == InitCalc /\ [][NextCalc]_vars

\* the last call returned a pair, and its window fits in its monitor
CalcReturnedFitting == calc.called /\ ~calc.out.panic /\ Fits(calc.ms, calc.ws)

\* C1: whenever calculate_top_center_position returns for a window that fits in the
\* monitor and a margin >= 0, however large, and either origin, the returned (x, y)
\* keeps the window inside the monitor rectangle on both axes.
C1_ResultInsideMonitor ==
  (CalcReturnedFitting /\ calc.vertical_margin >= 0) =>
    /\ calc.mp.x <= calc.out.x
    /\ calc.out.x <= calc.mp.x + calc.ms.width - calc.ws.width
    /\ calc.mp.y <= calc.out.y
    /\ calc.out.y <= calc.mp.y + calc.ms.height - calc.ws.height

\* C1 witness: a call with a margin larger than the monitor height returned a pair
C1_Witness ==
  /\ CalcReturnedFitting
  /\ calc.vertical_margin > calc.ms.height
  /\ calc.ws.height < calc.ms.height
  /\ calc.out.y \in {calc.mp.y, calc.mp.y + calc.ms.height - calc.ws.height}

\* clamp(monitor.y + margin, monitor.y, monitor.y + available_height) for a top-left
\* origin and clamp(monitor.y + available_height - margin, ...) for a bottom-left one,
\* over the integers: the margin's part is clamp(margin, 0, available_height)
ExactTopCenterY(mp, ms, ws, vertical_margin, origin_bottom_left) ==
  LET available_height == ms.height - ws.height
      m == Clamp(vertical_margin, 0, available_height)
  IN  IF origin_bottom_left THEN mp.y + available_height - m ELSE mp.y + m

\* monitor.x + (monitor.width - window.width) / 2 over the integers
ExactCenterX(mp, ms, ws) == mp.x + (ms.width - ws.width) \div 2

\* C2: for every input where the window fits, calculate_top_center_position returns
\* x = monitor.x + (monitor.width - window.width) / 2 and y = the exact clamp of
\* monitor.y + margin (top-left) or monitor.y + available_height - margin (bottom-left).
C2_ExactResult ==
  CalcReturnedFitting =>
    /\ calc.out.x = ExactCenterX(calc.mp, calc.ms, calc.ws)
    /\ calc.out.y = ExactTopCenterY(calc.mp, calc.ms, calc.ws, calc.vertical_margin,
                                    calc.origin_bottom_left)

(***************************************************************************)
(* Properties of the positioning commands, under SpecWindow                *)
(***************************************************************************)
\* the last run was a positioning command that got past its lookups
PlacementComputed ==
  /\ last.cmd \in PlacementCommands
  /\ panel_exists
  /\ last.host \in {"set_position failed", "ok"}

\* the last run was a positioning command that succeeded on a window that fits
PlacedFitting(cmd) ==
  /\ last.cmd = cmd
  /\ last.result = "Ok"
  /\ Fits(monitor_size, window_size)

FreeWidth == monitor_size.width - window_size.width
FreeHeight == monitor_size.height - window_size.height

\* C3: when the window is wider or taller than the monitor, the placement computation
\* does not panic and the position it yields is the monitor's origin on that axis.
C3_OversizedCollapsesToOrigin ==
  (PlacementComputed /\ ~Fits(monitor_size, window_size)) =>
    /\ last.result # "panic"
    /\ (last.result = "Ok" /\ window_size.width > monitor_size.width)
         => position.x = monitor_position.x
    /\ (last.result = "Ok" /\ window_size.height > monitor_size.height)
         => position.y = monitor_position.y

\* C4: on a window that fits and for every margin m, right-center sets
\* x = clamp(monitor.x + available_width - m, monitor.x, monitor.x + available_width),
\* left-center sets x = clamp(monitor.x + m, ...), both set
\* y = monitor.y + available_height / 2, and the position is inside the monitor.
C4_EdgeCenterExact ==
  /\ (PlacedFitting("position_window_right_center") /\ last.margin # None) =>
       /\ position.x = monitor_position.x + FreeWidth
                         - Clamp(last.margin[1], 0, FreeWidth)
       /\ position.y = monitor_position.y + FreeHeight \div 2
  /\ (PlacedFitting("position_window_left_center") /\ last.margin # None) =>
       /\ position.x = monitor_position.x + Clamp(last.margin[1], 0, FreeWidth)
       /\ position.y = monitor_position.y + FreeHeight \div 2
  /\ (\E cmd \in {"position_window_right_center", "position_window_left_center"} :
        PlacedFitting(cmd)) =>
       /\ monitor_position.x <= position.x
       /\ position.x <= monitor_position.x + FreeWidth
       /\ monitor_position.y <= position.y
       /\ position.y <= monitor_position.y + FreeHeight

\* the margin of a placement, when it is Some(m) with 0 <= m <= available_width
InRangeMargin(margin) ==
  margin # None /\ 0 <= margin[1] /\ margin[1] <= FreeWidth

\* the last two successful placements were made by cmd with in-range margins
TwoPlacements(cmd) ==
  /\ PlacedFitting(cmd)
  /\ prev.cmd = cmd
  /\ InRangeMargin(prev.margin)
  /\ InRangeMargin(last.margin)

\* C5: for one geometry and margins m1 <= m2 in [0, available_width], right-center
\* with m2 sets an x <= the x it sets with m1, and left-center with m2 an x >= the x
\* it sets with m1.
C5_MonotoneInMargin ==
  /\ TwoPlacements("position_window_right_center") =>
       /\ prev.margin[1] <= last.margin[1] => position.x <= prev.x
       /\ last.margin[1] <= prev.margin[1] => prev.x <= position.x
  /\ TwoPlacements("position_window_left_center") =>
       /\ prev.margin[1] <= last.margin[1] => prev.x <= position.x
       /\ last.margin[1] <= prev.margin[1] => position.x <= prev.x

\* C5 witness: right-center with a larger in-range margin moved the panel left
C5_Witness ==
  /\ TwoPlacements("position_window_right_center")
  /\ prev.margin[1] < last.margin[1]
  /\ position.x < prev.x

\* C6: right-center and left-center called with margin None put the panel exactly
\* where the same command with margin Some(40) puts it.
C6_DefaultMarginIsForty ==
  \A cmd \in {"position_window_right_center", "position_window_left_center"} :
    ( /\ last.cmd = cmd
      /\ last.result = "Ok"
      /\ prev.cmd = cmd
      /\ {prev.margin, last.margin} = {None, Some(40)} )
    => (position.x = prev.x /\ position.y = prev.y)

\* C6 witness: right-center with Some(40) after right-center with None, on a monitor
\* where 40 is neither clamped away nor the only possible position
C6_Witness ==
  /\ PlacedFitting("position_window_right_center")
  /\ prev.cmd = "position_window_right_center"
  /\ prev.margin = None
  /\ last.margin = Some(40)
  /\ FreeWidth > 40
  /\ position.x = monitor_position.x + FreeWidth - 40

\* the host calls of a run contain no call twice
NoRepeat(calls) ==
  \A i, j \in 1..Len(calls) : i # j => calls[i] # calls[j]

\* call a comes before call b in the host calls of a run
Precedes(calls, a, b) ==
  \E i, j \in 1..Len(calls) : i < j /\ calls[i] = a /\ calls[j] = b

\* the run met a missing panel, a failed or empty monitor query, or a failed size query
LookupFailed(run) ==
  \/ ~panel_exists
  \/ run.host \in {"current_monitor failed", "No monitor found", "outer_size failed"}

\* C8: when the panel does not exist, there is no current monitor, or the monitor or
\* size query fails, each positioning command returns an error, makes no host call
\* twice, and leaves position, visibility, always-on-top and focus unchanged.
C8_LookupFailureChangesNothing ==
  [][ (last'.cmd \in PlacementCommands /\ LookupFailed(last')) =>
        /\ last'.result \in {"Window not found", "current_monitor failed",
                             "No monitor found", "outer_size failed"}
        /\ NoRepeat(last'.calls)
        /\ \A i \in 1..Len(last'.calls) :
             last'.calls[i] \in {"get_webview_window", "current_monitor", "outer_size"}
        /\ UNCHANGED panel ]_vars

\* C8 witness: a positioning command found no monitor while the panel was hidden
C8_Witness ==
  /\ last.cmd \in PlacementCommands
  /\ panel_exists
  /\ last.result = "No monitor found"
  /\ ~visible
  /\ ~focused

Min(a, b) == IF a <= b THEN a ELSE b

\* C10: position_window_top_center uses the top-left origin and margin 40: on success
\* with a window that fits the panel is at x = monitor.x + available_width / 2,
\* y = monitor.y + min(40, available_height); set_position is called before show, and
\* when set_position fails the command returns the error without showing, raising or
\* focusing the panel.
C10_TopCenterPlacement ==
  [][ last'.cmd = "position_window_top_center" =>
        /\ (last'.result = "Ok" /\ Fits(monitor_size, window_size)) =>
             /\ position'.x = monitor_position.x + FreeWidth \div 2
             /\ position'.y = monitor_position.y + Min(40, FreeHeight)
        /\ last'.result = "Ok" => Precedes(last'.calls, "set_position", "show")
        /\ (panel_exists /\ last'.host = "set_position failed" /\ last'.result # "panic") =>
             /\ last'.result = "set_position failed"
             /\ \A i \in 1..Len(last'.calls) :
                  last'.calls[i] \notin {"show", "set_always_on_top", "set_focus"}
             /\ UNCHANGED <<position, visible, always_on_top, focused>> ]_vars

\* C10 witness: the command placed the panel, the panel was hidden, and a second call
\* whose set_position failed left it hidden
C10_Witness ==
  /\ last.cmd = "position_window_top_center"
  /\ last.result = "set_position failed"
  /\ prev.cmd = "position_window_top_center"
  /\ Fits(monitor_size, window_size)
  /\ position.y = monitor_position.y + Min(40, FreeHeight)
  /\ FreeHeight > 40
  /\ ~visible

(***************************************************************************)
(* The event handlers run() installs (lib.rs 273-279, 305-311, 332-421).   *)
(* Each handler looks the panel up and does nothing when there is none;    *)
(* the results of show, set_focus, set_always_on_top and emit are dropped, *)
(* and on an existing window the host carries them out.                    *)
(***************************************************************************)
Hotkeys == {"Alt+Cmd+Space", "Ctrl+Space", "Cmd+Shift+Space"}
TrayIconEvents == {"Click", "Enter"}
MenuIds == {"show", "quit", "other"}

\* mutant: the handler toggles the panel instead of showing it
ShowPanelToggles(cmd, arg, raise) ==
  /\ running
  /\ expand_events < MaxEvents
  /\ prev' = LastPlaced
  /\ last' = Run(cmd, None, arg, "", "Ok", <<visible>>, <<>>)
  /\ visible' = (panel_exists /\ ~visible)
  /\ focused' = (panel_exists /\ ~visible)
  /\ always_on_top' = (always_on_top \/ (panel_exists /\ raise))
  /\ expand_events' = IF panel_exists THEN expand_events + 1 ELSE expand_events
  /\ UNCHANGED <<overflow_checks, panel_exists, running, geometry, position, toggle_events,
                 storage, calc>>

\* show, set_focus, (set_always_on_top(true) when raise,) emit "panel-should-expand"
ShowPanel(cmd, arg, raise) ==
  /\ running
  /\ expand_events < MaxEvents
  /\ prev' = LastPlaced
  /\ IF panel_exists
     THEN /\ last' = Run(cmd, None, arg, "", "Ok", <<visible>>,
                         <<"get_webview_window", "show", "set_focus">>
                           \o (IF raise THEN <<"set_always_on_top">> ELSE <<>>)
                           \o <<"emit panel-should-expand">>)
          /\ visible' = TRUE
          /\ focused' = TRUE
          /\ always_on_top' = (always_on_top \/ raise)
          /\ expand_events' = expand_events + 1
     ELSE /\ last' = Run(cmd, None, arg, "", "Ok", <<visible>>, <<"get_webview_window">>)
          /\ UNCHANGED <<visible, focused, always_on_top, expand_events>>
  /\ UNCHANGED <<overflow_checks, panel_exists, running, geometry, position, toggle_events,
                 storage, calc>>

\* a handler that changes nothing but the log
Ignore(cmd, arg) ==
  /\ running
  /\ prev' = LastPlaced
  /\ last' = Run(cmd, None, arg, "", "Ok", <<visible>>, <<>>)
  /\ UNCHANGED <<overflow_checks, panel_exists, running, geometry, panel, events, storage,
                 calc>>

\* the three global hotkeys (lib.rs 365-380)
global_hotkey(hotkey) == ShowPanel("global_shortcut", hotkey, TRUE)

\* the tray icon: a click shows the panel, any other event is ignored (lib.rs 350-361)
on_tray_icon_event(event) ==
  IF event = "Click"
  THEN ShowPanel("tray_icon_event", event, TRUE)
  ELSE Ignore("tray_icon_event", event)

\* the tray menu: "show" shows the panel, "quit" exits the process (lib.rs 332-349)
on_menu_event(id) ==
  IF id = "show" THEN ShowPanel("menu_event", id, TRUE)
  ELSE IF id = "quit"
  THEN /\ running
       /\ running' = FALSE
       /\ prev' = LastPlaced
       /\ last' = Run("menu_event", None, id, "", "exit", <<visible>>, <<>>)
       /\ UNCHANGED <<overflow_checks, panel_exists, geometry, panel, events, storage, calc>>
  ELSE Ignore("menu_event", id)

\* a second instance was launched (lib.rs 273-279): no set_always_on_top here
single_instance == ShowPanel("single_instance", "", FALSE)

\* the listener of "tauri://close-requested" (lib.rs 305-311) only logs
close_requested == Ignore("close-requested", "")

\* the Escape shortcut (lib.rs 415-421) only logs
escape == Ignore("Escape", "")

\* Cmd+1 (lib.rs 382-413): emit_to("panel", "toggle-collapse"), and when that fails
\* the fallback window.emit; nothing else
cmd_1(emit_to_ok, emit_ok) ==
  /\ running
  /\ toggle_events < MaxEvents
  /\ prev' = LastPlaced
  /\ IF ~panel_exists
     THEN /\ last' = Run("Cmd+1", None, "", "", "Ok", <<visible>>, <<"get_webview_window">>)
          /\ UNCHANGED toggle_events
     ELSE IF emit_to_ok
     THEN /\ last' = Run("Cmd+1", None, "", "", "Ok", <<visible>>,
                         <<"get_webview_window", "emit_to toggle-collapse", "eval">>)
          /\ toggle_events' = toggle_events + 1
     ELSE /\ last' = Run("Cmd+1", None, "", "emit_to failed", "Ok", <<visible>>,
                         <<"get_webview_window", "emit_to toggle-collapse",
                           "emit toggle-collapse", "eval">>)
          /\ toggle_events' = IF emit_ok THEN toggle_events + 1 ELSE toggle_events
  /\ UNCHANGED <<overflow_checks, panel_exists, running, geometry, panel, expand_events,
                 storage, calc>>

NextEvents ==
  \/ \E hotkey \in Hotkeys : global_hotkey(hotkey)
  \/ \E event \in TrayIconEvents : on_tray_icon_event(event)
  \/ \E id \in MenuIds : on_menu_event(id)
  \/ single_instance
  \/ close_requested
  \/ escape
  \/ \E emit_to_ok \in BOOLEAN, emit_ok \in BOOLEAN : cmd_1(emit_to_ok, emit_ok)
  \/ HostHide

\* one build and one geometry: the event handlers read neither
InitEvents ==
  /\ Init
  /\ ~overflow_checks
  /\ store = EmptyStore
  /\ monitor_position = Pos(0, 0)
  /\ window_size = Size(420, 110)

SpecEvents == InitEvents /\ [][NextEvents]_vars

\* the run is one of the show triggers
ShowTrigger(run) ==
  \/ run.cmd = "global_shortcut" /\ run.arg \in Hotkeys
  \/ run.cmd = "tray_icon_event" /\ run.arg = "Click"
  \/ run.cmd = "menu_event" /\ run.arg = "show"
  \/ run.cmd = "single_instance"

\* C9: with a panel, every show trigger (three hotkeys, tray click, tray "show",
\* relaunch) leaves the panel visible and focused and emits exactly one
\* "panel-should-expand", whatever its visibility was; close-requested, Escape and
\* Cmd+1 never change visibility or focus, and Cmd+1 emits nothing but "toggle-collapse".
C9_ShowNeverToggles ==
  [][ /\ (ShowTrigger(last') /\ panel_exists) =>
           /\ visible'
           /\ focused'
           /\ expand_events' = expand_events + 1
           /\ toggle_events' = toggle_events
      /\ last'.cmd \in {"close-requested", "Escape", "Cmd+1"} =>
           /\ UNCHANGED <<panel_exists, running, position, visible, always_on_top, focused>>
           /\ expand_events' = expand_events
      /\ last'.cmd \in {"close-requested", "Escape"} => toggle_events' = toggle_events
      /\ last'.cmd = "Cmd+1" => toggle_events' \in {toggle_events, toggle_events + 1} ]_vars

\* C9 witness: a hotkey pressed while the panel was hidden, and it is shown and focused
C9_Witness ==
  /\ ShowTrigger(last)
  /\ last.cmd = "global_shortcut"
  /\ last.value = <<FALSE>>
  /\ panel_exists
  /\ visible
  /\ focused
  /\ expand_events >= 2

(***************************************************************************)
(* The custom-position commands (lib.rs 205-267).  store_ok is whether     *)
(* app.store("settings.json") succeeds, save_ok whether store.save() does. *)
(***************************************************************************)
\* what get_custom_position(mode) returns when the store opens: Ok(None), Ok(Some((x, y)))
\* or the deserialisation error
get_custom_position_outcome(mode) ==
  IF StoreGet(store, Key(mode)) = None
  THEN [result |-> "Ok", value |-> None]
  ELSE IF from_value(StoreGet(store, Key(mode))[1]).ok
  THEN [result |-> "Ok", value |-> Some(from_value(StoreGet(store, Key(mode))[1]).v)]
  ELSE [result |-> from_value(StoreGet(store, Key(mode))[1]).err, value |-> None]

\* what has_custom_position(mode) returns when the store opens
has_custom_position_value(mode) == StoreHas(store, Key(mode))

save_custom_position(mode, x, y, store_ok, save_ok) ==
  /\ running
  /\ prev' = LastPlaced
  /\ IF ~store_ok
     THEN /\ last' = Run("save_custom_position", None, mode, "store failed", "store failed",
                         <<>>, <<"store">>)
          /\ failed' = TRUE
          /\ UNCHANGED <<store, disk, saved>>
     ELSE /\ store' = StoreSet(store, Key(mode), to_value(x, y))
          /\ IF save_ok
             THEN /\ last' = Run("save_custom_position", None, mode, "", "Ok", <<>>,
                                 <<"store", "set", "save">>)
                  /\ disk' = store'
                  /\ saved' = [saved EXCEPT ![mode] = Some(<<x, y>>)]
                  /\ UNCHANGED failed
             ELSE /\ last' = Run("save_custom_position", None, mode, "save failed",
                                 "save failed", <<>>, <<"store", "set", "save">>)
                  /\ failed' = TRUE
                  /\ UNCHANGED <<disk, saved>>
  /\ UNCHANGED <<overflow_checks, panel_exists, running, geometry, panel, events, calc>>

get_custom_position(mode, store_ok) ==
  /\ running
  /\ prev' = LastPlaced
  /\ IF ~store_ok
     THEN /\ last' = Run("get_custom_position", None, mode, "store failed", "store failed",
                         <<>>, <<"store">>)
          /\ failed' = TRUE
     ELSE /\ last' = Run("get_custom_position", None, mode, "",
                         get_custom_position_outcome(mode).result,
                         get_custom_position_outcome(mode).value, <<"store", "get">>)
          /\ failed' = (failed \/ get_custom_position_outcome(mode).result # "Ok")
  /\ UNCHANGED <<overflow_checks, panel_exists, running, geometry, panel, events, store,
                 disk, saved, calc>>

clear_custom_position(mode, store_ok, save_ok) ==
  /\ running
  /\ prev' = LastPlaced
  /\ IF ~store_ok
     THEN /\ last' = Run("clear_custom_position", None, mode, "store failed", "store failed",
                         <<>>, <<"store">>)
          /\ failed' = TRUE
          /\ UNCHANGED <<store, disk, saved>>
     ELSE /\ store' = StoreDelete(store, Key(mode))
          /\ IF save_ok
             THEN /\ last' = Run("clear_custom_position", None, mode, "", "Ok", <<>>,
                                 <<"store", "delete", "save">>)
                  /\ disk' = store'
                  /\ saved' = [saved EXCEPT ![mode] = None]
                  /\ UNCHANGED failed
             ELSE /\ last' = Run("clear_custom_position", None, mode, "save failed",
                                 "save failed", <<>>, <<"store", "delete", "save">>)
                  /\ failed' = TRUE
                  /\ UNCHANGED <<disk, saved>>
  /\ UNCHANGED <<overflow_checks, panel_exists, running, geometry, panel, events, calc>>

has_custom_position(mode, store_ok) ==
  /\ running
  /\ prev' = LastPlaced
  /\ IF ~store_ok
     THEN /\ last' = Run("has_custom_position", None, mode, "store failed", "store failed",
                         <<>>, <<"store">>)
          /\ failed' = TRUE
     ELSE /\ last' = Run("has_custom_position", None, mode, "", "Ok",
                         <<has_custom_position_value(mode)>>, <<"store", "has">>)
          /\ UNCHANGED failed
  /\ UNCHANGED <<overflow_checks, panel_exists, running, geometry, panel, events, store,
                 disk, saved, calc>>

NextStore ==
  \/ \E mode \in Modes, x \in StoredXs, y \in StoredYs, store_ok \in BOOLEAN,
        save_ok \in BOOLEAN :
       save_custom_position(mode, x, y, store_ok, save_ok)
  \/ \E mode \in Modes, store_ok \in BOOLEAN : get_custom_position(mode, store_ok)
  \/ \E mode \in Modes, store_ok \in BOOLEAN, save_ok \in BOOLEAN :
       clear_custom_position(mode, store_ok, save_ok)
  \/ \E mode \in Modes, store_ok \in BOOLEAN : has_custom_position(mode, store_ok)

\* one build, one geometry, a panel: the store commands read none of them
InitStore ==
  /\ Init
  /\ ~overflow_checks
  /\ panel_exists
  /\ monitor_position = Pos(0, 0)
  /\ window_size = Size(420, 110)

SpecStore == InitStore /\ [][NextStore]_vars

\* C7: as long as every save, clear, get and has call has succeeded, for every mode
\* whose entry is absent or was written by save_custom_position, get(mode) succeeds and
\* returns Some((x, y)) of the most recent save of that mode when no clear of it
\* followed and None otherwise, and has(mode) is true exactly when get(mode) is Some;
\* the calls made return those answers; so a save or clear of one mode changes
\* neither answer for another mode.
C7_StoreIsPerModeMap ==
  ~failed =>
    /\ \A mode \in Modes :
         saved[mode] # Foreign =>
           /\ get_custom_position_outcome(mode).result = "Ok"
           /\ get_custom_position_outcome(mode).value = saved[mode]
           /\ has_custom_position_value(mode) = (get_custom_position_outcome(mode).value # None)
    /\ (last.cmd = "get_custom_position" /\ last.result = "Ok"
          /\ saved[last.arg] # Foreign) =>
         last.value = saved[last.arg]
    /\ (last.cmd = "has_custom_position" /\ last.result = "Ok"
          /\ saved[last.arg] # Foreign) =>
         last.value = <<saved[last.arg] # None>>

\* C7 witness: "top" was saved and read back while "left" holds another saved
\* position, and both saves reached the disk
C7_Witness ==
  /\ ~failed
  /\ last.cmd = "get_custom_position"
  /\ last.arg = "top"
  /\ last.value = Some(<<300, 12>>)
  /\ saved["left"] = Some(<<-5, 12>>)
  /\ StoreHas(disk, Key("top"))
  /\ StoreHas(disk, Key("left"))
  /\ disk = store

(***************************************************************************)
(* The whole program: every command and every handler                      *)
(***************************************************************************)
Next ==
  \/ NextWindow
  \/ NextEvents
  \/ NextStore
  \/ NextCalc

Spec == Init /\ [][Next]_vars

====
